---- MODULE Spec2Model ----
(***************************************************************************)
(* Model of waypoint_updater.py (src_v7): the WaypointUpdater node.        *)
(*                                                                         *)
(* Three subscriber callbacks (pose_cb, waypoints_cb, traffic_cb) store    *)
(* the latest pose, base path and stop-line index; the main thread runs    *)
(* loop(), which at PUBLISHING_RATE publishes a lookahead window of        *)
(* LOOKAHEAD_WPS waypoints starting at the waypoint closest to (and ahead  *)
(* of) the vehicle, with speeds reshaped for braking when a stop line is   *)
(* ahead.                                                                  *)
(*                                                                         *)
(* Numbers.  Coordinates are integers.  A speed is the real number         *)
(* sqrt(root) + frac / LOOKAHEAD_WPS, kept exactly as the record           *)
(* [root, frac] with root either 0 or not a perfect square (so that two    *)
(* records denote the same real iff they are equal).  The paths the model  *)
(* plans over have segments of integer length, so the arc length computed  *)
(* by distance() is an integer and every speed is of that form.            *)
(***************************************************************************)
EXTENDS Integers, Sequences, FiniteSets, TLC

\* ---------------------------------------------------------------- constants
LOOKAHEAD_WPS == 50
STOP_LINE_MARGIN == 3
\* MAX_DECEL = 0.5, kept as the fraction MAX_DECEL_NUM / MAX_DECEL_DEN
MAX_DECEL_NUM == 1
MAX_DECEL_DEN == 2

\* ------------------------------------------------------------------- bounds
\* short paths have 1..MaxShortN points
MaxShortN == 3
\* long paths have LOOKAHEAD_WPS-1 .. LOOKAHEAD_WPS+MaxOverN points
MaxOverN == 2
\* grid paths (2D) have 1..MaxGridN points, x in 0..MaxGridX, y in 0..MaxGridY
MaxGridN == 3
MaxGridX == 2
MaxGridY == 1
\* one more long path has LongN points
LongN == 60
\* nominal speeds are 1..MaxSpeed distance units per time unit
MaxSpeed == 5
\* the main thread starts at most MaxTicks loop iterations
MaxTicks == 2
\* at most MaxMsgs messages are delivered to the callbacks
MaxMsgs == 4

\* ------------------------------------------------------------ Python values
\* None is the empty tuple, any other value v is held as <<v>>
None == <<>>
Some(v) == <<v>>
Val(o) == o[1]

\* seq[k] with Python's 0-based index, negative k counting from the end
PyIndex(seq, k) == IF k < 0 THEN seq[Len(seq) + k + 1] ELSE seq[k + 1]

\* seq[a:b] for a, b >= 0: bounds are clamped to the length
PySlice(seq, a, b) ==
    LET n  == Len(seq)
        lo == IF a > n THEN n ELSE a
        hi == IF b > n THEN n ELSE b
    IN  IF hi <= lo THEN <<>> ELSE SubSeq(seq, lo + 1, hi)

Min(a, b) == IF b < a THEN b ELSE a
Max(a, b) == IF a < b THEN b ELSE a

\* floor of the square root of n >= 0; hi is any upper bound on it
ISqrt(n, hi) == CHOOSE r \in 0..hi : r * r <= n /\ (r + 1) * (r + 1) > n

Abs(a) == IF a < 0 THEN -a ELSE a

\* ------------------------------------------------------------------- speeds
\* the real number sqrt(root) + frac / LOOKAHEAD_WPS in canonical form
Speed(root, frac) ==
    LET r == ISqrt(root, root)
    IN  IF r * r = root
        THEN [root |-> 0, frac |-> frac + LOOKAHEAD_WPS * r]
        ELSE [root |-> root, frac |-> frac]

\* a nominal speed of n distance units per time unit
Nominal(n) == [root |-> 0, frac |-> n * LOOKAHEAD_WPS]

Zero == Nominal(0)
One == Nominal(1)

\* a < b as real numbers (one of the two has root 0, or the roots agree)
SpLess(a, b) ==
    LET W == LOOKAHEAD_WPS
        d == b.frac - a.frac
    IN  IF a.root = b.root THEN d > 0
        ELSE IF b.root = 0
        THEN d > 0 /\ W * W * a.root < d * d
        ELSE \* a.root = 0:  -d < W * sqrt(b.root)
             d >= 0 \/ d * d < W * W * b.root

SpLeq(a, b) == ~SpLess(b, a)

\* Python's min(a, b): b when b < a, else a
SpMin(a, b) == IF SpLess(b, a) THEN b ELSE a


\* --------------------------------------------------------------- waypoints
\* a styx_msgs/Waypoint: position (x, y, z) and twist.twist.linear.x (v)
Waypoint(px, py, pz, speed) == [x |-> px, y |-> py, z |-> pz, v |-> speed]

\* n collinear points spaced one distance unit apart, nominal speed s
LinePath(n, s) == [k \in 1..n |-> Waypoint(k - 1, 0, 0, Nominal(s))]

\* ------------------------------------------------------------------ state
VARIABLES
    config,            \* yaml of /traffic_light_config: [param, haskey, stop_line_positions]
    true_division,     \* TRUE: 1 / 50 is 0.02 (Python 3); FALSE: it is 0 (Python 2)
    pose,              \* self.pose: None or Some([x, y])
    base_lane,         \* self.base_lane: None or Some(sequence of Waypoint)
    waypoints_2d,      \* self.waypoints_2d: None or Some(sequence of <<x, y>>)
    waypoint_tree,     \* self.waypoint_tree: None or Some(the indexed points)
    stopline_wp_idx,   \* self.stopline_wp_idx
    pc,                \* main thread: the line it is about to execute
    x, y,              \* get_closest_waypoint_idx: x, y
    found_idx,         \* the value get_closest_waypoint_idx returned (None or Some(i))
    closest_idx,       \* generate_lane: closest_idx (line 109 may reset it to 0)
    farthest_idx,      \* generate_lane: farthest_idx
    base_waypoints,    \* generate_lane: base_waypoints
    last_light_wp_idx, \* generate_lane: last_light_wp_idx
    temp,              \* decelerate_waypoints: temp
    lane,              \* the Lane last handed to final_waypoints_pub.publish: None or Some(waypoints)
    published,         \* number of Lanes published
    err,               \* the exception that ended the main thread, or "none"
    shutdown,          \* rospy.is_shutdown()
    wcb_pc,            \* waypoints_cb thread: "idle", or the line it is about to execute
    wcb_msg,           \* waypoints_cb: its argument
    delivered_paths,   \* history: the arguments of the waypoints_cb calls so far
    ticks,             \* number of loop iterations started
    delivered          \* number of messages delivered to the callbacks

env    == <<config, true_division>>
node   == <<pose, base_lane, waypoints_2d, waypoint_tree, stopline_wp_idx>>
locals == <<x, y, found_idx, closest_idx, farthest_idx, base_waypoints,
            last_light_wp_idx, temp>>
output == <<lane, published>>
wcb    == <<wcb_pc, wcb_msg, delivered_paths>>
vars   == <<env, node, locals, output, wcb, pc, err, shutdown, ticks, delivered>>

\* CONSTANT_DECEL = 1 / LOOKAHEAD_WPS, as a numerator over LOOKAHEAD_WPS
CONSTANT_DECEL == IF true_division THEN 1 ELSE 0

\* ------------------------------------------------- get_closest_waypoint_idx
Dist2(p, qx, qy) == (p[1] - qx) * (p[1] - qx) + (p[2] - qy) * (p[2] - qy)

\* KDTree.query([qx, qy], 1)[1]: the indices of the points nearest the query
\* (one of them is returned; which one on a tie is up to the tree)
Query(tree, qx, qy) ==
    {k \in 0..(Len(tree) - 1) :
        \A j \in 1..Len(tree) : Dist2(tree[k + 1], qx, qy) <= Dist2(tree[j], qx, qy)}

\* val of line 86 at index idx
Hyperplane(w2d, idx, qx, qy) ==
    LET cl   == PyIndex(w2d, idx)
        prev == PyIndex(w2d, idx - 1)
    IN  (cl[1] - prev[1]) * (qx - cl[1]) + (cl[2] - prev[2]) * (qy - cl[2])

\* AheadIdx without the advance of lines 87-88
AheadIdxNoAdvance(w2d, nearest, qx, qy) == nearest

\* lines 78-89, with nearest the index the tree returned
AheadIdx(w2d, nearest, qx, qy) ==
    IF Hyperplane(w2d, nearest, qx, qy) > 0
    THEN (nearest + 1) % Len(w2d)
    ELSE nearest


\* ---------------------------------------------------------- generate_lane
\* lines 100-115: the locals closest_idx, farthest_idx and base_waypoints
\* after the three-way branch; n2d is len(self.waypoints_2d), c the index
\* returned by get_closest_waypoint_idx, waypoints is self.base_lane.waypoints
Window(waypoints, n2d, c) ==
    IF c > (n2d - 1 - LOOKAHEAD_WPS - 1) /\ c < n2d - 1
    THEN LET f == (c + LOOKAHEAD_WPS) % n2d
         IN  [closest_idx    |-> c,
              farthest_idx   |-> f,
              base_waypoints |-> PySlice(waypoints, c, Len(waypoints))
                                     \o PySlice(waypoints, 0, f)]
    ELSE IF c = n2d - 1
    THEN [closest_idx    |-> 0,
          farthest_idx   |-> 0 + LOOKAHEAD_WPS,
          base_waypoints |-> PySlice(waypoints, 0, 0 + LOOKAHEAD_WPS)]
    ELSE [closest_idx    |-> c,
          farthest_idx   |-> c + LOOKAHEAD_WPS,
          base_waypoints |-> PySlice(waypoints, c, c + LOOKAHEAD_WPS)]

\* line 125: the condition under which the window is published untouched
Cruise(stopline, farthest, closest, last_light) ==
    stopline = -1 \/ stopline >= farthest \/ closest > last_light

\* --------------------------------------------------------------- distance
\* dl of line 175 (the segments of the modelled paths have integer length)
Dl(a, b) ==
    LET dx == a.x - b.x
        dy == a.y - b.y
        dz == a.z - b.z
    IN  ISqrt(dx * dx + dy * dy + dz * dz, Abs(dx) + Abs(dy) + Abs(dz))

\* the loop of lines 176-178 from i on, prev being the running wp1
RECURSIVE DistanceFrom(_, _, _, _)
DistanceFrom(waypoints, prev, i, wp2) ==
    IF i > wp2 THEN 0
    ELSE Dl(PyIndex(waypoints, prev), PyIndex(waypoints, i))
             + DistanceFrom(waypoints, i, i + 1, wp2)

\* distance(waypoints, wp1, wp2), lines 173-179
Distance(waypoints, wp1, wp2) == DistanceFrom(waypoints, wp1, wp1, wp2)

\* distance(waypoints, wp1, wp2) raises IndexError: the loop reaches an
\* index past the end of waypoints
DistanceRaises(waypoints, wp1, wp2) ==
    wp1 <= wp2 /\ wp2 >= Len(waypoints)

\* --------------------------------------------------- decelerate_waypoints
\* line 139
StopIdx(stopline, closest) == Max(stopline - closest - STOP_LINE_MARGIN, 0)

\* lines 141-143: sqrt(2 * MAX_DECEL * dist) + i * CONSTANT_DECEL, and 0 when
\* that is below 1
Vel(dist, i, decel) ==
    LET vel == Speed((2 * MAX_DECEL_NUM * dist) \div MAX_DECEL_DEN, i * decel)
    IN  IF SpLess(vel, One) THEN Zero ELSE vel

\* DecelPoint without the min of line 145
DecelPointNoMin(waypoints, i, closest, stopline, decel) ==
    LET wp       == PyIndex(waypoints, i)
        stop_idx == StopIdx(stopline, closest)
        dist     == Distance(waypoints, i, stop_idx)
    IN  [wp EXCEPT !.v = Vel(dist, i, decel)]

\* lines 136-146: the waypoint appended for the point at local index i
DecelPoint(waypoints, i, closest, stopline, decel) ==
    LET wp       == PyIndex(waypoints, i)
        stop_idx == StopIdx(stopline, closest)
        dist     == Distance(waypoints, i, stop_idx)
    IN  [wp EXCEPT !.v = SpMin(Vel(dist, i, decel), wp.v)]

\* lines 132-148 run to completion with one value of self.stopline_wp_idx
DecelerateWaypoints(waypoints, closest, stopline, decel) ==
    [k \in 1..Len(waypoints) |-> DecelPoint(waypoints, k - 1, closest, stopline, decel)]

\* some iteration of decelerate_waypoints raises IndexError
DecelerateRaises(waypoints, closest, stopline) ==
    \E i \in 0..(Len(waypoints) - 1) :
        DistanceRaises(waypoints, i, StopIdx(stopline, closest))


\* ------------------------------------------------------------ the callbacks
\* the node's threads run: the constructor has subscribed and the main
\* thread has neither died nor left the loop
Running == pc \notin {"init", "dead", "exit"}

\* the [x, y] list built at line 156
Coords(waypoints) == [k \in 1..Len(waypoints) |-> <<waypoints[k].x, waypoints[k].y>>]

\* pose_cb, lines 150-151
pose_cb(msg) ==
    /\ Running
    /\ delivered < MaxMsgs
    /\ pose' = Some(msg)
    /\ delivered' = delivered + 1
    /\ UNCHANGED <<env, base_lane, waypoints_2d, waypoint_tree, stopline_wp_idx,
                   locals, output, wcb, pc, err, shutdown, ticks>>

\* traffic_cb, lines 159-161
traffic_cb(data) ==
    /\ Running
    /\ delivered < MaxMsgs
    /\ stopline_wp_idx' = data
    /\ delivered' = delivered + 1
    /\ UNCHANGED <<env, pose, base_lane, waypoints_2d, waypoint_tree,
                   locals, output, wcb, pc, err, shutdown, ticks>>

\* waypoints_cb, line 154 (the callbacks of one topic run one at a time)
waypoints_cb(msg) ==
    /\ Running
    /\ delivered < MaxMsgs
    /\ wcb_pc = "idle"
    /\ base_lane' = Some(msg)
    /\ wcb_pc' = "l155"
    /\ wcb_msg' = msg
    /\ delivered_paths' = Append(delivered_paths, msg)
    /\ delivered' = delivered + 1
    /\ UNCHANGED <<env, pose, waypoints_2d, waypoint_tree, stopline_wp_idx,
                   locals, output, pc, err, shutdown, ticks>>

\* waypoints_cb_l155 without the test of line 155: the list is rebuilt
\* from every delivered path
waypoints_cb_l155_Rebuild ==
    /\ Running
    /\ wcb_pc = "l155"
    /\ waypoints_2d' = Some(Coords(wcb_msg))
    /\ wcb_pc' = "l157"
    /\ UNCHANGED wcb_msg
    /\ UNCHANGED <<env, pose, base_lane, waypoint_tree, stopline_wp_idx,
                   locals, output, pc, err, shutdown, ticks, delivered,
                   delivered_paths>>

\* waypoints_cb, lines 155-156
waypoints_cb_l155 ==
    /\ Running
    /\ wcb_pc = "l155"
    /\ IF waypoints_2d = None \/ Val(waypoints_2d) = <<>>
       THEN /\ waypoints_2d' = Some(Coords(wcb_msg))
            /\ wcb_pc' = "l157"
            /\ UNCHANGED wcb_msg
       ELSE /\ wcb_pc' = "idle"
            /\ wcb_msg' = <<>>
            /\ UNCHANGED waypoints_2d
    /\ UNCHANGED <<env, pose, base_lane, waypoint_tree, stopline_wp_idx,
                   locals, output, pc, err, shutdown, ticks, delivered,
                   delivered_paths>>

\* waypoints_cb, line 157
waypoints_cb_l157 ==
    /\ Running
    /\ wcb_pc = "l157"
    /\ waypoint_tree' = Some(Val(waypoints_2d))
    /\ wcb_pc' = "idle"
    /\ wcb_msg' = <<>>
    /\ UNCHANGED <<env, pose, base_lane, waypoints_2d, stopline_wp_idx,
                   locals, output, pc, err, shutdown, ticks, delivered,
                   delivered_paths>>

\* rospy signals shutdown
Shutdown ==
    /\ Running
    /\ ~shutdown
    /\ shutdown' = TRUE
    /\ UNCHANGED <<env, node, locals, output, wcb, pc, err, ticks, delivered>>

\* --------------------------------------------------------- the main thread
\* the main thread dies with exception e
Raise(e) ==
    /\ pc' = "dead"
    /\ err' = e

\* no call of the main thread is in progress: its locals hold nothing
NoLocals ==
    /\ x = 0 /\ y = 0
    /\ found_idx = None
    /\ closest_idx = None
    /\ farthest_idx = 0
    /\ base_waypoints = <<>>
    /\ last_light_wp_idx = 0
    /\ temp = <<>>

DropLocals ==
    /\ x' = 0 /\ y' = 0
    /\ found_idx' = None
    /\ closest_idx' = None
    /\ farthest_idx' = 0
    /\ base_waypoints' = <<>>
    /\ last_light_wp_idx' = 0
    /\ temp' = <<>>

\* __init__, lines 36-57: get_param raises KeyError when the parameter is
\* not set; otherwise the callbacks are subscribed and loop() is entered
init_node ==
    /\ pc = "init"
    /\ IF config.param
       THEN pc' = "loop" /\ UNCHANGED err
       ELSE Raise("KeyError")
    /\ UNCHANGED <<env, node, locals, output, wcb, shutdown, ticks, delivered>>

\* loop, lines 63-64
loop ==
    /\ pc = "loop"
    /\ IF shutdown
       THEN pc' = "exit" /\ UNCHANGED ticks
       ELSE /\ ticks < MaxTicks
            /\ ticks' = ticks + 1
            /\ pc' = IF pose # None /\ base_lane # None THEN "l70" ELSE "l66"
    /\ UNCHANGED <<env, node, locals, output, wcb, err, shutdown, delivered>>

\* get_closest_waypoint_idx, line 70
l70 ==
    /\ pc = "l70"
    /\ x' = Val(pose).x
    /\ pc' = "l71"
    /\ UNCHANGED <<env, node, y, found_idx, closest_idx, farthest_idx, base_waypoints,
                   last_light_wp_idx, temp, output, wcb, err, shutdown, ticks, delivered>>

\* get_closest_waypoint_idx, line 71
l71 ==
    /\ pc = "l71"
    /\ y' = Val(pose).y
    /\ pc' = "l73"
    /\ UNCHANGED <<env, node, x, found_idx, closest_idx, farthest_idx, base_waypoints,
                   last_light_wp_idx, temp, output, wcb, err, shutdown, ticks, delivered>>

\* get_closest_waypoint_idx, lines 73-89, and the assignment of line 98;
\* without a tree the function falls off its end and returns None
l73 ==
    /\ pc = "l73"
    /\ IF waypoint_tree # None
       THEN \E nearest \in Query(Val(waypoint_tree), x, y) :
                found_idx' = Some(AheadIdx(Val(waypoints_2d), nearest, x, y))
       ELSE found_idx' = None
    /\ closest_idx' = found_idx'
    /\ pc' = "l100"
    /\ UNCHANGED <<env, node, x, y, farthest_idx, base_waypoints,
                   last_light_wp_idx, temp, output, wcb, err, shutdown, ticks, delivered>>

\* generate_lane, lines 100-115.  len(None) raises TypeError; with
\* closest_idx None the comparison of line 100 (Python 3) or the sum of
\* line 114 (Python 2) raises TypeError
l100 ==
    /\ pc = "l100"
    /\ IF waypoints_2d = None \/ closest_idx = None
       THEN /\ Raise("TypeError")
            /\ UNCHANGED <<closest_idx, farthest_idx, base_waypoints>>
       ELSE LET w == Window(Val(base_lane), Len(Val(waypoints_2d)), Val(closest_idx))
            IN  /\ closest_idx' = Some(w.closest_idx)
                /\ farthest_idx' = w.farthest_idx
                /\ base_waypoints' = w.base_waypoints
                /\ pc' = "l120"
                /\ UNCHANGED err
    /\ UNCHANGED <<env, node, x, y, found_idx, last_light_wp_idx, temp,
                   output, wcb, shutdown, ticks, delivered>>

\* generate_lane, lines 120-122: KeyError without the key, IndexError on
\* an empty list
l120 ==
    /\ pc = "l120"
    /\ IF ~config.haskey
       THEN Raise("KeyError") /\ UNCHANGED last_light_wp_idx
       ELSE IF config.stop_line_positions = <<>>
       THEN Raise("IndexError") /\ UNCHANGED last_light_wp_idx
       ELSE LET last_stop_line == PyIndex(config.stop_line_positions, -1)
            IN  /\ \E nearest \in Query(Val(waypoint_tree),
                                        last_stop_line[1], last_stop_line[2]) :
                        last_light_wp_idx' = nearest
                /\ pc' = "l125"
                /\ UNCHANGED err
    /\ UNCHANGED <<env, node, x, y, found_idx, closest_idx, farthest_idx,
                   base_waypoints, temp, output, wcb, shutdown, ticks, delivered>>

\* generate_lane, lines 125-128 up to the call of decelerate_waypoints
l125 ==
    /\ pc = "l125"
    /\ IF Cruise(stopline_wp_idx, farthest_idx, Val(closest_idx), last_light_wp_idx)
       THEN /\ temp' = base_waypoints
            /\ pc' = "l93"
       ELSE /\ temp' = <<>>
            /\ pc' = "l134"
    /\ UNCHANGED <<env, node, x, y, found_idx, closest_idx, farthest_idx,
                   base_waypoints, last_light_wp_idx, output, wcb, err, shutdown,
                   ticks, delivered>>

\* l134 writing the decelerated speed to wp, the point of the stored path,
\* instead of to the fresh point p
l134_InPlace ==
    /\ pc = "l134"
    /\ LET i == Len(temp)
       IN  IF i = Len(base_waypoints)
           THEN pc' = "l93" /\ UNCHANGED <<temp, err, base_lane>>
           ELSE IF DistanceRaises(base_waypoints, i,
                                  StopIdx(stopline_wp_idx, Val(closest_idx)))
           THEN Raise("IndexError") /\ UNCHANGED <<temp, base_lane>>
           ELSE LET p == DecelPoint(base_waypoints, i, Val(closest_idx),
                                    stopline_wp_idx, CONSTANT_DECEL)
                    j == ((Val(closest_idx) + i) % Len(Val(base_lane))) + 1
                IN  /\ temp' = Append(temp, p)
                    /\ base_lane' = Some([Val(base_lane) EXCEPT ![j] = p])
                    /\ UNCHANGED <<pc, err>>
    /\ UNCHANGED <<env, pose, waypoints_2d, waypoint_tree, stopline_wp_idx,
                   x, y, found_idx, closest_idx, farthest_idx,
                   base_waypoints, last_light_wp_idx, output, wcb, shutdown,
                   ticks, delivered>>

\* decelerate_waypoints, lines 134-148: one iteration of the loop, which
\* reads self.stopline_wp_idx anew, or the return after the last one
l134 ==
    /\ pc = "l134"
    /\ LET i == Len(temp)
       IN  IF i = Len(base_waypoints)
           THEN pc' = "l93" /\ UNCHANGED <<temp, err>>
           ELSE IF DistanceRaises(base_waypoints, i,
                                  StopIdx(stopline_wp_idx, Val(closest_idx)))
           THEN Raise("IndexError") /\ UNCHANGED temp
           ELSE /\ temp' = Append(temp, DecelPoint(base_waypoints, i, Val(closest_idx),
                                                   stopline_wp_idx, CONSTANT_DECEL))
                /\ UNCHANGED <<pc, err>>
    /\ UNCHANGED <<env, node, x, y, found_idx, closest_idx, farthest_idx,
                   base_waypoints, last_light_wp_idx, output, wcb, shutdown,
                   ticks, delivered>>

\* publish_waypoints, line 93; temp holds lane.waypoints
l93 ==
    /\ pc = "l93"
    /\ lane' = Some(temp)
    /\ published' = published + 1
    /\ pc' = "l66"
    /\ UNCHANGED <<env, node, locals, wcb, err, shutdown, ticks, delivered>>

\* loop, line 66: rate.sleep(); the frames of the calls are gone
l66 ==
    /\ pc = "l66"
    /\ pc' = "loop"
    /\ DropLocals
    /\ UNCHANGED <<env, node, output, wcb, err, shutdown, ticks, delivered>>


\* one whole loop iteration (lines 63-66) over a node that is ready and
\* whose configuration lists a stop line, with no callback in between
LoopIteration ==
    /\ pc = "loop"
    /\ ~shutdown
    /\ ticks < MaxTicks
    /\ pose # None /\ base_lane # None /\ waypoint_tree # None
    /\ config.haskey /\ config.stop_line_positions # <<>>
    /\ ticks' = ticks + 1
    /\ x' = Val(pose).x
    /\ y' = Val(pose).y
    /\ \E nearest \in Query(Val(waypoint_tree), x', y') :
        LET c == AheadIdx(Val(waypoints_2d), nearest, x', y')
            w == Window(Val(base_lane), Len(Val(waypoints_2d)), c)
            last_stop_line == PyIndex(config.stop_line_positions, -1)
        IN  /\ found_idx' = Some(c)
            /\ closest_idx' = Some(w.closest_idx)
            /\ farthest_idx' = w.farthest_idx
            /\ base_waypoints' = w.base_waypoints
            /\ \E last \in Query(Val(waypoint_tree), last_stop_line[1], last_stop_line[2]) :
                /\ last_light_wp_idx' = last
                /\ IF Cruise(stopline_wp_idx, w.farthest_idx, w.closest_idx, last)
                   THEN /\ temp' = w.base_waypoints
                        /\ lane' = Some(temp')
                        /\ published' = published + 1
                        /\ UNCHANGED <<pc, err>>
                   ELSE IF DecelerateRaises(w.base_waypoints, w.closest_idx, stopline_wp_idx)
                   THEN /\ Raise("IndexError")
                        /\ temp' = <<>>
                        /\ UNCHANGED output
                   ELSE /\ temp' = DecelerateWaypoints(w.base_waypoints, w.closest_idx,
                                                       stopline_wp_idx, CONSTANT_DECEL)
                        /\ lane' = Some(temp')
                        /\ published' = published + 1
                        /\ UNCHANGED <<pc, err>>
    /\ UNCHANGED <<env, node, wcb, shutdown, delivered>>

\* ---------------------------------------------------------- configurations
Config(positions) == [param |-> TRUE, haskey |-> TRUE, stop_line_positions |-> positions]
NoParam == [param |-> FALSE, haskey |-> FALSE, stop_line_positions |-> <<>>]
NoKey == [param |-> TRUE, haskey |-> FALSE, stop_line_positions |-> <<>>]

\* ------------------------------------------------------------------ inputs
\* lengths of the collinear paths
SeqLens == (1..MaxShortN) \cup ((LOOKAHEAD_WPS - 1)..(LOOKAHEAD_WPS + MaxOverN)) \cup {LongN}

\* vehicle positions along a path of n points: every point, and one unit
\* before the first and after the last
SeqPoses(n) == (-1)..n

\* stop-line indices published for a vehicle at px: none, near the start
\* of the path, at and ahead of the vehicle, and the last index
SeqStops(n, px) ==
    {-1} \cup ({0, 2, 5, px, px + 2, px + 3, px + 5, px + LOOKAHEAD_WPS - 1, n - 1}
               \cap (0..(n - 1)))

\* where the last configured stop line lies along a path of n points
LastStops(n) == {0, n \div 2}

\* ------------------------------------------------------- the specifications
\* SpecSeq: a ready node over a collinear path runs one loop iteration
\* with no callback in between
InitSeq ==
    /\ true_division \in BOOLEAN
    /\ \E n \in SeqLens, s \in {1, MaxSpeed} :
        /\ base_lane = Some(LinePath(n, s))
        /\ waypoints_2d = Some(Coords(LinePath(n, s)))
        /\ waypoint_tree = Some(Coords(LinePath(n, s)))
        /\ \E px \in SeqPoses(n) :
            /\ pose = Some([x |-> px, y |-> 0])
            /\ stopline_wp_idx \in SeqStops(n, px)
        /\ config \in {Config(<<(<<0, 0>>), (<<ls, 0>>)>>) : ls \in LastStops(n)}
    /\ pc = "loop"
    /\ NoLocals
    /\ lane = None
    /\ published = 0
    /\ err = "none"
    /\ shutdown = FALSE
    /\ wcb_pc = "idle"
    /\ wcb_msg = <<>>
    /\ delivered_paths = <<Val(base_lane)>>
    /\ ticks = 0
    /\ delivered = 0

NextSeq == ticks = 0 /\ LoopIteration

SpecSeq == InitSeq /\ [][NextSeq]_vars


\* SpecClosest: get_closest_waypoint_idx called on a path of grid points
\* (duplicates and any order allowed) for a vehicle on or around the grid
GridPoints == {<<gx, gy>> : gx \in 0..MaxGridX, gy \in 0..MaxGridY}

GridPaths == UNION {[1..n -> GridPoints] : n \in 1..MaxGridN}

GridLane(points) ==
    [k \in 1..Len(points) |-> Waypoint(points[k][1], points[k][2], 0, Nominal(MaxSpeed))]

InitClosest ==
    /\ true_division = FALSE
    /\ \E points \in GridPaths :
        /\ base_lane = Some(GridLane(points))
        /\ waypoints_2d = Some(points)
        /\ waypoint_tree = Some(points)
    /\ pose \in {Some([x |-> px, y |-> py]) :
                    px \in (-1)..(MaxGridX + 1), py \in (-1)..(MaxGridY + 1)}
    /\ stopline_wp_idx = -1
    /\ config = Config(<<(<<0, 0>>)>>)
    /\ pc = "l70"
    /\ NoLocals
    /\ lane = None
    /\ published = 0
    /\ err = "none"
    /\ shutdown = FALSE
    /\ wcb_pc = "idle"
    /\ wcb_msg = <<>>
    /\ delivered_paths = <<Val(base_lane)>>
    /\ ticks = 1
    /\ delivered = 0

NextClosest == l70 \/ l71 \/ l73

SpecClosest == InitClosest /\ [][NextClosest]_vars

\* Spec: the node from its construction on, the callbacks running
\* concurrently with the main thread
PoseMsgs == {[x |-> 1, y |-> 0], [x |-> LOOKAHEAD_WPS + MaxOverN - 1, y |-> 1]}

PathMsgs == {LinePath(LOOKAHEAD_WPS + MaxOverN, MaxSpeed), LinePath(MaxShortN, 1)}

StopMsgs == {-1, 10}

Configs == {NoParam, NoKey, Config(<<>>), Config(<<(<<1, 0>>)>>)}

\* (the node runs under Python 2, the interpreter of the ROS release it is
\* written for; SpecSeq covers both interpreters)
Init ==
    /\ config \in Configs
    /\ true_division = FALSE
    /\ pose = None
    /\ base_lane = None
    /\ waypoints_2d = None
    /\ waypoint_tree = None
    /\ stopline_wp_idx = -1
    /\ pc = "init"
    /\ NoLocals
    /\ lane = None
    /\ published = 0
    /\ err = "none"
    /\ shutdown = FALSE
    /\ wcb_pc = "idle"
    /\ wcb_msg = <<>>
    /\ delivered_paths = <<>>
    /\ ticks = 0
    /\ delivered = 0

Next ==
    \/ \E msg \in PoseMsgs : pose_cb(msg)
    \/ \E msg \in PathMsgs : waypoints_cb(msg)
    \/ waypoints_cb_l155
    \/ waypoints_cb_l157
    \/ \E data \in StopMsgs : traffic_cb(data)
    \/ Shutdown
    \/ init_node
    \/ loop
    \/ l70
    \/ l71
    \/ l73
    \/ l100
    \/ l120
    \/ l125
    \/ l134
    \/ l93
    \/ l66

Spec == Init /\ [][Next]_vars


\* ======================================================================
\* Properties of one loop iteration (SpecSeq)
\* ======================================================================
\* the iteration has published its window; the locals are those it used
Emitted == published > 0 /\ lane # None

\* len(self.waypoints_2d) and the stored path
N == Len(Val(waypoints_2d))
Path == Val(base_lane)

Position(wp) == <<wp.x, wp.y, wp.z>>

\* the published window is the selected one with the braking profile
\* computed from closest index c
Braked(c) ==
    /\ Len(Val(lane)) = Len(base_waypoints)
    /\ \A k \in 1..Len(base_waypoints) :
        Val(lane)[k].v = SpMin(Vel(Distance(base_waypoints, k - 1,
                                            StopIdx(stopline_wp_idx, c)),
                                   k - 1, CONSTANT_DECEL),
                               base_waypoints[k].v)

\* the published speeds are the nominal speeds of the selected points
PassedThrough ==
    /\ Len(Val(lane)) = Len(base_waypoints)
    /\ \A k \in 1..Len(base_waypoints) : Val(lane)[k].v = base_waypoints[k].v

\* the scenario of the specification's section 8
Scenario ==
    /\ Path = LinePath(60, 5)
    /\ Val(found_idx) = 10
    /\ stopline_wp_idx = 15

\* C1: braking is engaged whenever stopline_wp_idx is not -1, is below
\* closest_idx + LOOKAHEAD_WPS (not reduced mod N) and closest_idx is at
\* most the index of the last stop line: every published speed is then
\* min(nominal speed, decelerated speed).  In the scenario (60 collinear
\* points, nominal speed 5, closest index 10, stop line 15) the speeds at
\* local indices >= 2 are 0 and those at 0 and 1 are below 5.
C1_BrakingEngaged ==
    Emitted =>
        /\ (/\ stopline_wp_idx # -1
            /\ stopline_wp_idx < Val(found_idx) + LOOKAHEAD_WPS
            /\ Val(found_idx) <= last_light_wp_idx)
           => Braked(Val(found_idx))
        /\ (Scenario /\ Val(found_idx) <= last_light_wp_idx)
           => \A k \in 1..Len(Val(lane)) :
                 IF k - 1 >= 2 THEN Val(lane)[k].v = Zero
                 ELSE SpLess(Val(lane)[k].v, Nominal(5))

\* the scenario alone is enough to break C1
C1_ScenarioBrakes ==
    (Emitted /\ Scenario /\ Val(found_idx) <= last_light_wp_idx)
        => Val(lane)[3].v = Zero

\* C2: if stopline_wp_idx is -1, or at least closest_idx + LOOKAHEAD_WPS,
\* or the index returned by get_closest_waypoint_idx is greater than the
\* index of the last stop line, every published speed is the nominal speed
\* of its path point.
C2_CruisePassThrough ==
    (/\ Emitted
     /\ \/ stopline_wp_idx = -1
        \/ stopline_wp_idx >= Val(found_idx) + LOOKAHEAD_WPS
        \/ Val(found_idx) > last_light_wp_idx)
    => PassedThrough

\* braking was engaged in the iteration (line 125 took the else branch)
Engaged ==
    /\ Emitted
    /\ ~Cruise(stopline_wp_idx, farthest_idx, Val(closest_idx), last_light_wp_idx)

\* C3: with CONSTANT_DECEL = 1 / LOOKAHEAD_WPS, whenever braking is
\* engaged every published point at local index i >= stop_idx has speed 0,
\* whatever the length of the window.
C3_ZeroAtStop ==
    (Engaged /\ true_division)
    => \A k \in 1..Len(Val(lane)) :
          k - 1 >= StopIdx(stopline_wp_idx, Val(closest_idx))
              => Val(lane)[k].v = Zero

\* C4: every published speed is at least 0 and at most the nominal speed
\* of its path point, braking engaged or not.
C4_SpeedCeiling ==
    Emitted
    => /\ Len(Val(lane)) = Len(base_waypoints)
       /\ \A k \in 1..Len(Val(lane)) :
            /\ SpLeq(Zero, Val(lane)[k].v)
            /\ SpLeq(Val(lane)[k].v, base_waypoints[k].v)

\* C4 witness: braking is engaged and the window holds a point slowed to
\* a speed strictly between 0 and its nominal speed, a point stopped and a
\* point left at its nominal speed
C4_Witness ==
    /\ Engaged
    /\ \E k \in 1..Len(Val(lane)) :
        /\ SpLess(Zero, Val(lane)[k].v)
        /\ SpLess(Val(lane)[k].v, base_waypoints[k].v)
    /\ \E k \in 1..Len(Val(lane)) :
        Val(lane)[k].v = Zero /\ SpLess(Zero, base_waypoints[k].v)
    /\ \E k \in 1..Len(Val(lane)) :
        Val(lane)[k].v = base_waypoints[k].v /\ SpLess(Zero, base_waypoints[k].v)

\* C5: the published window has LOOKAHEAD_WPS points when the path has at
\* least that many, and as many points as the path otherwise.
C5_WindowLength ==
    Emitted
    => Len(Val(lane)) = (IF N >= LOOKAHEAD_WPS THEN LOOKAHEAD_WPS ELSE N)

\* C6: the first published point is path[closest_idx] and each following
\* one is the circular successor of the one before; when closest_idx +
\* LOOKAHEAD_WPS > N the points after path[N-1] are
\* path[0 : closest_idx + LOOKAHEAD_WPS - N] (stated here for paths of at
\* least LOOKAHEAD_WPS points, where that slice is a proper prefix).
C6_WindowOrder ==
    Emitted
    => LET c == Val(found_idx)
       IN  /\ \A k \in 0..(Len(Val(lane)) - 1) :
                Position(Val(lane)[k + 1]) = Position(PyIndex(Path, (c + k) % N))
           /\ (N >= LOOKAHEAD_WPS /\ c + LOOKAHEAD_WPS > N)
              => LET tail == PySlice(Path, 0, c + LOOKAHEAD_WPS - N)
                 IN  /\ Len(Val(lane)) = (N - c) + Len(tail)
                     /\ \A k \in 1..Len(tail) :
                          Position(Val(lane)[N - c + k]) = Position(tail[k])


\* ======================================================================
\* Properties of get_closest_waypoint_idx (SpecClosest)
\* ======================================================================
\* C7: the index r returned by get_closest_waypoint_idx satisfies
\* dot(point(r) - point((r-1) mod N), pose - point(r)) <= 0, whether the
\* nearest point was returned unchanged or advanced by one, for every
\* path (one point, duplicate points, the wrap from N-1 to 0).
C7_Directional ==
    (pc = "l100" /\ found_idx # None)
    => Hyperplane(Val(waypoints_2d), Val(found_idx), x, y) <= 0

\* C7 witness: the vehicle is past the last point of a path of three
\* distinct points, and the returned index is the nearest one advanced
\* across the wrap to 0
C7_Witness ==
    /\ pc = "l100"
    /\ N = 3
    /\ Cardinality({Val(waypoints_2d)[k] : k \in 1..N}) = 3
    /\ Query(Val(waypoint_tree), x, y) = {N - 1}
    /\ Hyperplane(Val(waypoints_2d), N - 1, x, y) > 0
    /\ found_idx = Some(0)

\* ======================================================================
\* Properties of the running node (Spec)
\* ======================================================================
\* the lines of a loop iteration that has passed the test of line 64
TickLines == {"l70", "l71", "l73", "l100", "l120", "l125", "l134", "l93"}

\* the configuration lists at least one stop line
ConfigValid ==
    config.param /\ config.haskey /\ config.stop_line_positions # <<>>

\* C8: a loop iteration that runs while the pose, the path or the index
\* is absent publishes nothing and raises no error, also when it runs after
\* waypoints_cb has stored the path and before it has built the index.
\* (An iteration without pose or path never passes line 64; one that found
\* no index is at found_idx = None after line 73.  Stated for a
\* configuration that lists a stop line.)
C8_NotReadySkipped ==
    /\ (pc \in TickLines) => (pose # None /\ base_lane # None)
    /\ (ConfigValid /\ ticks > 0 /\ found_idx = None)
       => pc \notin {"dead", "l120", "l125", "l134", "l93"}

\* C9: once a pose and a path have been received the loop stays ready
\* until shutdown: no later iteration and no later update ends it.
\* (Stated for a configuration that lists a stop line.)
C9_ReadyStays ==
    (pose # None /\ base_lane # None /\ ConfigValid) => pc # "dead"

\* C10: when the configured stop-line list is missing or empty the
\* process fails at startup: no loop iteration passes the test of line 64
\* and starts computing a window.
C10_ConfigInvalid ==
    ~ConfigValid => pc \notin TickLines


\* the pose read by the iteration in progress is one delivered pose
PoseSnapshot ==
    (pc \in {"l73", "l100", "l120", "l125", "l134", "l93"})
    => [x |-> x, y |-> y] \in PoseMsgs

\* the window about to be published was computed with one stop-line index,
\* used for the test of line 125 and for every point
StoplineSnapshot ==
    (pc = "l93")
    => \E s \in StopMsgs :
          temp = IF Cruise(s, farthest_idx, Val(closest_idx), last_light_wp_idx)
                 THEN base_waypoints
                 ELSE DecelerateWaypoints(base_waypoints, Val(closest_idx), s,
                                          CONSTANT_DECEL)

\* the window of the iteration in progress was sliced from one delivered path
PathSnapshot ==
    (pc \in {"l120", "l125", "l134", "l93"})
    => \E path \in PathMsgs :
          base_waypoints = Window(path, N, Val(found_idx)).base_waypoints

\* C11: under any interleaving of the callbacks with a loop iteration the
\* published window is computed from one value of each slot: x and y come
\* from the same pose, one stop-line index serves the test of line 125 and
\* every point's speed, and one path is used throughout.
C11_ConsistentSnapshot == PoseSnapshot /\ StoplineSnapshot /\ PathSnapshot


\* the first and the most recent path delivered to waypoints_cb
FirstPath == Head(delivered_paths)
LatestPath == delivered_paths[Len(delivered_paths)]

\* the 2D list and the tree, once built, are those of the first path
IndexOfFirstPath ==
    /\ waypoints_2d # None => Val(waypoints_2d) = Coords(FirstPath)
    /\ waypoint_tree # None => Val(waypoint_tree) = Coords(FirstPath)
    /\ base_lane # None => Val(base_lane) = LatestPath

\* lines 100-115 slice the most recent path, with N the length of the first
SliceOfLatestPath ==
    (pc = "l100" /\ pc' = "l120")
    => /\ N = Len(FirstPath)
       /\ base_waypoints' = Window(LatestPath, N, Val(found_idx)).base_waypoints

\* C12: after any sequence of path updates the index and the 2D list used
\* for the nearest-point query and for N in the wrap arithmetic are those of
\* the first delivered path and never change again, while the window is
\* sliced from the most recently delivered path.
C12_OneTimeIndex == [](IndexOfFirstPath) /\ [][SliceOfLatestPath]_vars

\* C12 witness: two different paths were delivered, the index is that of
\* the first and the window just sliced is a slice of the second, which
\* differs from the slice the first would have given
C12_Witness ==
    /\ pc = "l120"
    /\ Len(delivered_paths) >= 2
    /\ FirstPath # LatestPath
    /\ wcb_pc = "idle"
    /\ Val(waypoint_tree) = Coords(FirstPath)
    /\ Val(base_lane) = LatestPath
    /\ base_waypoints = Window(LatestPath, N, Val(found_idx)).base_waypoints
    /\ base_waypoints # Window(FirstPath, N, Val(found_idx)).base_waypoints


\* ======================================================================
\* The stop target (SpecSeq)
\* ======================================================================
\* the path index of the stop target, STOP_LINE_MARGIN points before the
\* stop line, and its offset in the window counted circularly from the
\* index returned by get_closest_waypoint_idx
TargetIdx == (stopline_wp_idx - STOP_LINE_MARGIN) % N
TargetOffset == (TargetIdx - Val(found_idx)) % N

\* the stop target is a point of the published window, at that offset
TargetInWindow ==
    /\ TargetOffset < Len(Val(lane))
    /\ Position(Val(lane)[TargetOffset + 1]) = Position(PyIndex(Path, TargetIdx))

\* C13: whenever braking is engaged and the path point STOP_LINE_MARGIN
\* positions before the stop line lies in the published window at or ahead
\* of the vehicle, counting circularly from the closest index, stop_idx of
\* line 139 is the window offset of exactly that point,
\* window[stop_idx] = path[(stopline_wp_idx - STOP_LINE_MARGIN) mod N],
\* also when the window wraps past the end of the path (stated here for
\* paths of at least LOOKAHEAD_WPS points, so that the window holds no path
\* point twice).
C13_StopTarget ==
    (Engaged /\ TargetInWindow /\ N >= LOOKAHEAD_WPS)
    => LET stop_idx == StopIdx(stopline_wp_idx, Val(closest_idx))
       IN  /\ stop_idx = TargetOffset
           /\ Position(Val(lane)[stop_idx + 1]) = Position(PyIndex(Path, TargetIdx))

\* C13 on a window that wraps with the stop line ahead of the vehicle past
\* the end of the path: the window is not zeroed from its first point
C13_WrapNotZeroed ==
    (/\ Engaged
     /\ TargetInWindow
     /\ stopline_wp_idx < Val(found_idx)
     /\ TargetIdx < stopline_wp_idx
     /\ 0 < TargetOffset)
    => SpLess(Zero, Val(lane)[1].v)


\* ======================================================================
\* Successive loop iterations over unchanged inputs (SpecTicks)
\* ======================================================================
\* paths, vehicle positions and stop-line indices of SpecTicks: windows
\* with and without a wrap, braking engaged and not
TickLens == {LOOKAHEAD_WPS + MaxOverN, LongN}
TickPoses(n) == {0, 20, n - 2, n - 1}
TickStops(px) == {-1, 5, px + 5}

\* SpecTicks: a ready node runs MaxTicks loop iterations line by line; no
\* callback delivers anything in between
InitTicks ==
    /\ true_division \in BOOLEAN
    /\ \E n \in TickLens, s \in {1, MaxSpeed} :
        /\ base_lane = Some(LinePath(n, s))
        /\ waypoints_2d = Some(Coords(LinePath(n, s)))
        /\ waypoint_tree = Some(Coords(LinePath(n, s)))
        /\ \E px \in TickPoses(n) :
            /\ pose = Some([x |-> px, y |-> 0])
            /\ stopline_wp_idx \in TickStops(px)
        /\ config \in {Config(<<(<<0, 0>>), (<<ls, 0>>)>>) : ls \in LastStops(n)}
    /\ pc = "loop"
    /\ NoLocals
    /\ lane = None
    /\ published = 0
    /\ err = "none"
    /\ shutdown = FALSE
    /\ wcb_pc = "idle"
    /\ wcb_msg = <<>>
    /\ delivered_paths = <<Val(base_lane)>>
    /\ ticks = 0
    /\ delivered = 0

NextTicks ==
    \/ loop
    \/ l70
    \/ l71
    \/ l73
    \/ l100
    \/ l120
    \/ l125
    \/ l134
    \/ l93
    \/ l66

SpecTicks == InitTicks /\ [][NextTicks]_vars

\* no step of a loop iteration writes the stored path, the pose, the
\* stop-line index or the index slots
TickFrame == UNCHANGED node

\* the window published by an iteration is the one published by the
\* iteration before it
SameWindow == (pc = "l93" /\ lane # None) => lane' = lane

\* C14: a tick never changes the stored path, neither its points nor their
\* nominal speeds (the decelerated speeds go to fresh points), nor the
\* pose, the stop-line index or the index slots; hence two ticks with the
\* same pose, path and stop-line index publish identical windows.
C14_PlanningPure == [][TickFrame /\ SameWindow]_vars

\* C14 witness: a second iteration has published a window in which braking
\* lowered a speed below the nominal speed, which the stored path still
\* carries at every point
C14_Witness ==
    /\ pc = "l66"
    /\ published >= 2
    /\ ~Cruise(stopline_wp_idx, farthest_idx, Val(closest_idx), last_light_wp_idx)
    /\ \E k \in 1..Len(Val(lane)) : SpLess(Val(lane)[k].v, base_waypoints[k].v)
    /\ \E s \in {1, MaxSpeed} : Val(base_lane) = LinePath(Len(Val(base_lane)), s)

====
